---- MODULE Spec2Model ----
(***************************************************************************)
(* A model of the crypto price relay: an Express server with two routes,   *)
(* GET / and GET /prices, whose /prices handler awaits fetchCryptoPrices,  *)
(* which issues one upstream GET and normalises the answer.  The           *)
(* repository holds two variants of the server: the CoinGecko one          *)
(* (src/server.js) and the CoinMarketCap one (src/unnamed/part_000).       *)
(***************************************************************************)
EXTENDS Integers, Sequences, FiniteSets, TLC

VARIABLES variant, pc, upstream, prices, reply, rootReply, rootServed, upstreamGets

vars == <<variant, pc, upstream, prices, reply, rootReply, rootServed, upstreamGets>>

(***************************************************************************)
(* Bounds of the model.                                                    *)
(***************************************************************************)
\* the first MaxVaried configured identifiers of a payload may deviate from a
\* well-formed priced entry, each on its own; the others carry one
MaxVaried == 2
\* how many /prices requests are in flight together in SpecConc
NumRequests == 2
\* how many GET / requests are served
MaxRoot == 2

(***************************************************************************)
(* JavaScript values.  A string is the sequence of the parts it was        *)
(* concatenated from.                                                      *)
(***************************************************************************)
Undefined == [t |-> "undefined"]
Null == [t |-> "null"]
Num(n) == [t |-> "number", n |-> n]
Str(parts) == [t |-> "string", s |-> parts]
Obj(fields) == [t |-> "object", f |-> fields]
Arr(elems) == [t |-> "array", a |-> elems]
NoFields == [k \in {} |-> Undefined]

Nullish(v) == v.t \in {"undefined", "null"}

\* ToBoolean, as `&&` and `if` apply it
Truthy(v) ==
    CASE v.t = "undefined" -> FALSE
      [] v.t = "null" -> FALSE
      [] v.t = "number" -> v.n # 0
      [] v.t = "string" -> v.s # <<>>
      [] OTHER -> TRUE

\* v[k] for a v that is not null or undefined
Prop(v, k) ==
    IF v.t = "object" /\ k \in DOMAIN v.f THEN v.f[k] ELSE Undefined

\* v.length for a v that is not null or undefined
Length(v) ==
    IF v.t = "array" THEN Num(Len(v.a)) ELSE Undefined

\* v[0] for a v that is not null or undefined
First(v) ==
    IF v.t = "array" /\ Len(v.a) > 0 THEN v.a[1] ELSE Undefined

\* x > 0
GreaterThanZero(v) == v.t = "number" /\ v.n > 0

\* a !== b on the values a payload can hold at error_code
StrictNotEqual(a, b) == a # b

\* `${v}` in a template literal
StringOf(v) ==
    CASE v.t = "undefined" -> "undefined"
      [] v.t = "null" -> "null"
      [] v.t = "number" -> ToString(v.n)
      [] v.t = "string" -> IF Len(v.s) = 1 THEN v.s[1] ELSE "<text>"
      [] v.t = "array" -> "<array>"
      [] OTHER -> "[object Object]"

\* obj[key] = val
Assign(fields, key, val) ==
    [k \in DOMAIN fields \cup {key} |-> IF k = key THEN val ELSE fields[k]]

(***************************************************************************)
(* Completions: a piece of code returns a value or throws an Error.        *)
(***************************************************************************)
Returned(v) == [type |-> "return", value |-> v]
Thrown(msg) == [type |-> "throw", message |-> msg]

\* the TypeError of reading a property of null or undefined
TypeErrorMessage(v, k) == <<"Cannot read properties of", v.t, "reading", k>>

(***************************************************************************)
(* Configuration.                                                          *)
(***************************************************************************)
CRYPTO_IDS ==
    <<"bitcoin", "ethereum", "litecoin", "shiba-inu", "dogecoin", "tron",
      "ripple", "the-open-network", "tether">>
VS_CURRENCY == "usd"

CRYPTO_SYMBOLS ==
    <<"BTC", "ETH", "LTC", "SHIB", "DOGE", "TRX", "XRP", "TON", "USDT">>
CONVERT_CURRENCY == "USD"

Variants == {"coingecko", "coinmarketcap"}

\* the identifier list of a variant
Configured(v) == IF v = "coingecko" THEN CRYPTO_IDS ELSE CRYPTO_SYMBOLS

\* String.prototype.toLowerCase on the identifiers
ToLowerCase(s) ==
    CASE s = "BTC" -> "btc"
      [] s = "ETH" -> "eth"
      [] s = "LTC" -> "ltc"
      [] s = "SHIB" -> "shib"
      [] s = "DOGE" -> "doge"
      [] s = "TRX" -> "trx"
      [] s = "XRP" -> "xrp"
      [] s = "TON" -> "ton"
      [] s = "USDT" -> "usdt"
      [] OTHER -> s

\* the key a variant stores an identifier's price under
KeyOf(v, id) == IF v = "coingecko" THEN id ELSE ToLowerCase(id)

NA == Str(<<"N/A">>)
FetchFailed == Str(<<"Failed to fetch cryptocurrency prices">>)

(***************************************************************************)
(* What the upstream can answer to one GET: the request fails on the       *)
(* network, or a response arrives with a status and a body.  A body has    *)
(* its text and what JSON.parse makes of that text (NotJSON: a syntax      *)
(* error).                                                                 *)
(***************************************************************************)
NotJSON == [t |-> "invalid"]
Absent == [t |-> "absent"]
NoOutcome == [kind |-> "none"]

NetworkFailure(reason) == [kind |-> "netfail", reason |-> reason]
Response(status, statusText, body) ==
    [kind |-> "response", status |-> status, statusText |-> statusText, body |-> body]
TextBody(raw) == [raw |-> raw, json |-> NotJSON]
JsonBody(doc) == [raw |-> "<json document>", json |-> doc]

DefaultPrice(i) == 100 + i

\* the entry a healthy upstream carries for the i-th identifier
WellFormedEntry(v, i) ==
    IF v = "coingecko"
    THEN Obj(VS_CURRENCY :> Num(DefaultPrice(i)))
    ELSE Arr(<<Obj("quote" :> Obj(CONVERT_CURRENCY :> Obj("price" :> Num(DefaultPrice(i)))))>>)

\* the other entries an upstream payload can carry for an identifier
OddEntries(v) ==
    IF v = "coingecko"
    THEN {Absent, Null, Obj(NoFields), Obj(VS_CURRENCY :> Null), Obj(VS_CURRENCY :> Num(0))}
    ELSE {Absent, Null, Arr(<<>>), Arr(<<Null>>), Arr(<<Obj(NoFields)>>),
          Arr(<<Obj("quote" :> Obj(NoFields))>>),
          Arr(<<Obj("quote" :> Obj(CONVERT_CURRENCY :> Obj(NoFields)))>>),
          Arr(<<Obj("quote" :> Obj(CONVERT_CURRENCY :> Obj("price" :> Null)))>>),
          Arr(<<Obj("quote" :> Obj(CONVERT_CURRENCY :> Obj("price" :> Num(0))))>>),
          Obj("quote" :> Obj(CONVERT_CURRENCY :> Obj("price" :> Num(7))))}

Positions == 1..Len(CRYPTO_IDS)

\* which identifiers deviate from the well-formed entry, and how
Variations(k, odd) ==
    UNION {[V -> odd] : V \in SUBSET (Positions \cap (1..k))}

\* the identifier-keyed object of a payload
PayloadItems(v, var) ==
    LET ids == Configured(v)
        present == {i \in Positions : i \notin DOMAIN var \/ var[i] # Absent}
    IN [id \in {ids[i] : i \in present} |->
          LET i == CHOOSE j \in present : ids[j] = id
          IN IF i \in DOMAIN var THEN var[i] ELSE WellFormedEntry(v, i)]

\* the embedded status of a CoinMarketCap payload
StatusShapes ==
    {Absent, Obj(NoFields), Obj("error_code" :> Num(0)),
     Obj([error_code |-> Num(1002), error_message |-> Str(<<"API key missing.">>)])}

WithStatus(fields, s) == IF s = Absent THEN fields ELSE Assign(fields, "status", s)

\* the JSON documents an upstream body can parse to
Docs(v, vs, statuses) ==
    {Null, Num(5)} \cup
    IF v = "coingecko"
    THEN {Obj(PayloadItems(v, var)) : var \in vs}
    ELSE {Obj(WithStatus("data" :> Obj(PayloadItems(v, var)), s)) : var \in vs, s \in statuses}
         \cup {Obj(WithStatus(NoFields, s)) : s \in statuses}

NoVariation == [i \in {} |-> Absent]
FullDoc(v) ==
    IF v = "coingecko"
    THEN Obj(PayloadItems(v, NoVariation))
    ELSE Obj(WithStatus("data" :> Obj(PayloadItems(v, NoVariation)), Obj("error_code" :> Num(0))))

FailureStatuses == {<<429, "Too Many Requests">>, <<503, "Service Unavailable">>}

OutcomesOf(v, vs, statuses, failures, bodies) ==
    {NetworkFailure("ECONNREFUSED")}
    \cup {Response(st[1], st[2], b) : st \in failures, b \in bodies}
    \cup {Response(200, "OK", TextBody("<html>Bad Gateway</html>"))}
    \cup {Response(200, "OK", JsonBody(d)) : d \in Docs(v, vs, statuses)}

\* every upstream outcome of the model
Outcomes(v) ==
    OutcomesOf(v, Variations(MaxVaried, OddEntries(v)), StatusShapes, FailureStatuses,
               {TextBody("upstream unavailable"), JsonBody(FullDoc(v))})

\* the outcomes of the concurrent specification: a failure of each kind, the
\* full payload, and the payload without its first identifier
ConcOutcomes(v) ==
    OutcomesOf(v, {NoVariation, [i \in {1} |-> Absent]},
               {Absent, Obj([error_code |-> Num(1002), error_message |-> Str(<<"API key missing.">>)])},
               {<<503, "Service Unavailable">>}, {TextBody("upstream unavailable")})

AllOutcomes == [v \in Variants |-> Outcomes(v)]
AllConcOutcomes == [v \in Variants |-> ConcOutcomes(v)]

(***************************************************************************)
(* fetchCryptoPrices.                                                      *)
(***************************************************************************)
\* a fetcher that never looks at response.ok
OkUnchecked(status) == TRUE

\* response.ok
Ok(status) == status >= 200 /\ status <= 299

\* await response.text()
ResponseText(body) == body.raw

\* a parse that yields an empty object for a body that is not JSON
ResponseJsonLenient(body) ==
    Returned(IF body.json = NotJSON THEN Obj(NoFields) ELSE body.json)

\* await response.json()
ResponseJson(body) ==
    IF body.json = NotJSON
    THEN Thrown(<<"invalid json response body", "Unexpected token">>)
    ELSE Returned(body.json)

\* the message of the Error thrown for a response that is not ok
ApiErrorMessage(v, o) ==
    <<IF v = "coingecko" THEN "CoinGecko API error:" ELSE "CoinMarketCap API error:",
      ToString(o.status), o.statusText, "-", ResponseText(o.body)>>

\* the if/else of the loop body, CoinGecko
PriceOfCG(data, id) ==
    IF Nullish(data)
    THEN Thrown(TypeErrorMessage(data, id))
    ELSE LET e == Prop(data, id)
         IN IF Truthy(e) /\ Truthy(Prop(e, VS_CURRENCY))
            THEN Returned(Prop(e, VS_CURRENCY))
            ELSE Returned(NA)

\* the if/else of the loop body, CoinMarketCap (data is not null here)
PriceOfCMC(data, symbol) ==
    LET d == Prop(data, "data")
        e == Prop(d, symbol)
        first == First(e)
        q == Prop(first, "quote")
        u == Prop(q, CONVERT_CURRENCY)
    IN IF ~Truthy(d) THEN Returned(NA)
       ELSE IF ~Truthy(e) THEN Returned(NA)
       ELSE IF ~GreaterThanZero(Length(e)) THEN Returned(NA)
       ELSE IF Nullish(first) THEN Thrown(TypeErrorMessage(first, "quote"))
       ELSE IF ~Truthy(q) THEN Returned(NA)
       ELSE IF ~Truthy(u) THEN Returned(NA)
       ELSE Returned(Prop(u, "price"))

PriceOf(v, data, id) ==
    IF v = "coingecko" THEN PriceOfCG(data, id) ELSE PriceOfCMC(data, id)

\* the for loop over the configured identifiers, from the i-th on
RECURSIVE FormatLoop(_, _, _, _)
FormatLoop(v, data, i, formattedPrices) ==
    IF i > Len(Configured(v))
    THEN Returned(Obj(formattedPrices))
    ELSE LET id == Configured(v)[i]
             p == PriceOf(v, data, id)
         IN IF p.type = "throw"
            THEN p
            ELSE FormatLoop(v, data, i + 1, Assign(formattedPrices, KeyOf(v, id), p.value))

\* the check of the status embedded in a CoinMarketCap body
EmbeddedError(data) ==
    IF Nullish(data)
    THEN Thrown(TypeErrorMessage(data, "status"))
    ELSE LET s == Prop(data, "status")
         IN IF Truthy(s) /\ StrictNotEqual(Prop(s, "error_code"), Num(0))
            THEN Thrown(<<"CoinMarketCap API internal error:", StringOf(Prop(s, "error_message"))>>)
            ELSE Returned(Undefined)

\* the try block from the parsed body on
Normalize(v, data) ==
    LET chk == IF v = "coingecko" THEN Returned(Undefined) ELSE EmbeddedError(data)
    IN IF chk.type = "throw" THEN chk ELSE FormatLoop(v, data, 1, NoFields)

\* the try block from the response on
TryBody(v, o) ==
    IF ~Ok(o.status)
    THEN Thrown(ApiErrorMessage(v, o))
    ELSE LET parsed == ResponseJson(o.body)
         IN IF parsed.type = "throw" THEN parsed ELSE Normalize(v, parsed.value)

\* a function body without its try/catch
CatchNothing(c) == c

\* the catch block
Catch(c) ==
    IF c.type = "throw"
    THEN Returned(Obj([error |-> FetchFailed, details |-> Str(c.message)]))
    ELSE c

\* the rejection of fetch() itself
FetchRejected(o) == Thrown(<<"request to upstream failed, reason:", o.reason>>)

(***************************************************************************)
(* The HTTP server.                                                        *)
(***************************************************************************)
\* JSON.stringify of an object, as res.json applies it: a property whose
\* value is undefined is left out
Serialize(v) ==
    IF v.t = "object"
    THEN Obj([k \in {j \in DOMAIN v.f : v.f[j] # Undefined} |-> v.f[k]])
    ELSE v

\* a handler that answers 200 whatever the result
HandlePricesAlways200(p) == [status |-> 200, body |-> Serialize(p)]

\* the body of the /prices handler once fetchCryptoPrices has returned
HandlePrices(p) ==
    IF Truthy(Prop(p, "error"))
    THEN [status |-> 500, body |-> Serialize(p)]
    ELSE [status |-> 200, body |-> Serialize(p)]

WelcomeText(v) ==
    IF v = "coingecko"
    THEN "Welcome to the Crypto Price API! Access /prices to get the latest data."
    ELSE "Welcome to the Crypto Price API! Access /prices to get the latest data from CoinMarketCap."

\* a / handler that answers with an error status
RootHandlerUnavailable(v) == [status |-> 503, text |-> WelcomeText(v)]

\* the / handler: res.send answers 200
RootHandler(v) == [status |-> 200, text |-> WelcomeText(v)]

Requests == 1..NumRequests
Pending == [type |-> "pending"]
NoReply == [status |-> 0, body |-> Undefined]
NoRootReply == [status |-> 0, text |-> ""]

\* a `response` declared at module scope: a call reads what some call stored
ResponseOfShared(r) ==
    upstream[CHOOSE q \in 1..NumRequests : upstream[q].kind = "response"]

\* the `response` a call of fetchCryptoPrices holds: a local of that call
ResponseOf(r) == upstream[r]

Init ==
    /\ variant \in Variants
    /\ pc = [r \in Requests |-> "idle"]
    /\ upstream = [r \in Requests |-> NoOutcome]
    /\ prices = [r \in Requests |-> Pending]
    /\ reply = [r \in Requests |-> NoReply]
    /\ rootReply = NoRootReply
    /\ rootServed = 0
    /\ upstreamGets = [r \in Requests |-> 0]

\* GET /prices arrives: the handler calls fetchCryptoPrices, which calls fetch
StartPrices(r) ==
    /\ pc[r] = "idle"
    /\ pc' = [pc EXCEPT ![r] = "awaitFetch"]
    /\ upstreamGets' = [upstreamGets EXCEPT ![r] = @ + 1]
    /\ UNCHANGED <<variant, upstream, prices, reply, rootReply, rootServed>>

\* await fetch(url) settles with the upstream's outcome o
FetchSettles(r, o) ==
    /\ pc[r] = "awaitFetch"
    /\ upstream' = [upstream EXCEPT ![r] = o]
    /\ IF o.kind = "netfail"
       THEN /\ prices' = [prices EXCEPT ![r] = Catch(FetchRejected(o))]
            /\ pc' = [pc EXCEPT ![r] = "awaitPrices"]
       ELSE /\ pc' = [pc EXCEPT ![r] = "awaitBody"]
            /\ UNCHANGED prices
    /\ UNCHANGED <<variant, reply, rootReply, rootServed, upstreamGets>>

\* await response.text() or await response.json() settles; the function runs to its return
BodySettles(r) ==
    /\ pc[r] = "awaitBody"
    /\ prices' = [prices EXCEPT ![r] = Catch(TryBody(variant, ResponseOf(r)))]
    /\ pc' = [pc EXCEPT ![r] = "awaitPrices"]
    /\ UNCHANGED <<variant, upstream, reply, rootReply, rootServed, upstreamGets>>

\* await fetchCryptoPrices() settles in the handler; an exception that escaped
\* the function rejects the handler, which then never answers
Respond(r) ==
    /\ pc[r] = "awaitPrices"
    /\ IF prices[r].type = "return"
       THEN /\ reply' = [reply EXCEPT ![r] = HandlePrices(prices[r].value)]
            /\ pc' = [pc EXCEPT ![r] = "done"]
       ELSE /\ pc' = [pc EXCEPT ![r] = "rejected"]
            /\ UNCHANGED reply
    /\ UNCHANGED <<variant, upstream, prices, rootReply, rootServed, upstreamGets>>

\* GET / arrives and is answered
Root ==
    /\ rootServed < MaxRoot
    /\ rootServed' = rootServed + 1
    /\ rootReply' = RootHandler(variant)
    /\ UNCHANGED <<variant, pc, upstream, prices, reply, upstreamGets>>

\* one /prices request against every upstream outcome, with GET / requests
Next ==
    \/ StartPrices(1)
    \/ \E o \in AllOutcomes[variant] : FetchSettles(1, o)
    \/ BodySettles(1)
    \/ Respond(1)
    \/ Root

Spec == Init /\ [][Next]_vars

\* NumRequests /prices requests in flight together, with GET / requests
NextConc ==
    \/ \E r \in Requests : StartPrices(r)
    \/ \E r \in Requests : \E o \in AllConcOutcomes[variant] : FetchSettles(r, o)
    \/ \E r \in Requests : BodySettles(r)
    \/ \E r \in Requests : Respond(r)
    \/ Root

SpecConc == Init /\ [][NextConc]_vars

(***************************************************************************)
(* Properties.                                                             *)
(***************************************************************************)
Ids == {Configured(variant)[i] : i \in Positions}
LowerIds == {ToLowerCase(id) : id \in Ids}
Answered(r) == pc[r] = "done"
IsErrorResult(p) == p.t = "object" /\ "error" \in DOMAIN p.f
IsWellFormedError(p) ==
    /\ p.t = "object"
    /\ DOMAIN p.f = {"error", "details"}
    /\ p.f["error"] = Str(<<"Failed to fetch cryptocurrency prices">>)
    /\ p.f["details"].t = "string"
GotResponse(r) == upstream[r].kind = "response"
OkJson(r) ==
    /\ GotResponse(r)
    /\ upstream[r].status \in 200..299
    /\ upstream[r].body.json # NotJSON
DocOf(r) == upstream[r].body.json

\* the value a payload carries for an identifier at the provider's nesting
Carried(v, doc, id) ==
    IF v = "coingecko"
    THEN Prop(Prop(doc, id), "usd")
    ELSE Prop(Prop(Prop(First(Prop(Prop(doc, "data"), id)), "quote"), "USD"), "price")

\* the identifier-keyed part of a payload
ItemsOf(v, doc) == IF v = "coingecko" THEN doc ELSE Prop(doc, "data")

\* the payload carries no embedded status, or one with error code 0
NoEmbeddedError(v, doc) ==
    \/ v = "coingecko"
    \/ Prop(doc, "status") = Undefined
    \/ Prop(Prop(doc, "status"), "error_code") = Num(0)

\* the payload carries an embedded status with an error code other than 0
HasNonZeroErrorCode(doc) ==
    LET code == Prop(Prop(doc, "status"), "error_code")
    IN code.t = "number" /\ code.n # 0

\* C1: whenever a PriceMap is answered as the 200 body, the body's keys are
\* exactly the configured identifiers in lower case.
C1_KeySetIsConfiguredSet ==
    \A r \in Requests :
        (Answered(r) /\ reply[r].status = 200) =>
            (reply[r].body.t = "object" /\ DOMAIN reply[r].body.f = LowerIds)

\* C2: for a successful upstream response that carries a number for every
\* configured identifier, /prices answers 200 and maps every identifier (in
\* lower case) to that number, 0 included.
C2_EveryNumberMapped ==
    \A r \in Requests :
        (/\ Answered(r)
         /\ OkJson(r)
         /\ DocOf(r).t = "object"
         /\ NoEmbeddedError(variant, DocOf(r))
         /\ \A id \in Ids : Carried(variant, DocOf(r), id).t = "number")
        => (/\ reply[r].status = 200
            /\ \A id \in Ids :
                 Prop(reply[r].body, ToLowerCase(id)) = Carried(variant, DocOf(r), id))

\* C3: if the upstream response omits one configured identifier and carries
\* a number for every other, /prices answers 200, the omitted identifier is
\* "N/A" and every other identifier keeps its number.
C3_OmittedIsNA ==
    \A r \in Requests : \A id \in Ids :
        (/\ Answered(r)
         /\ OkJson(r)
         /\ DocOf(r).t = "object"
         /\ NoEmbeddedError(variant, DocOf(r))
         /\ ItemsOf(variant, DocOf(r)).t = "object"
         /\ id \notin DOMAIN ItemsOf(variant, DocOf(r)).f
         /\ \A other \in Ids \ {id} : Carried(variant, DocOf(r), other).t = "number")
        => (/\ reply[r].status = 200
            /\ ~IsErrorResult(reply[r].body)
            /\ Prop(reply[r].body, ToLowerCase(id)) = Str(<<"N/A">>)
            /\ \A other \in Ids \ {id} :
                 Prop(reply[r].body, ToLowerCase(other)) = Carried(variant, DocOf(r), other))

\* C4: an answered /prices request has status 500 and the ErrorResult as body
\* exactly when the Fetcher result carries an `error` field, and status 200
\* with the serialized PriceMap as body otherwise.
C4_StatusMatchesResult ==
    \A r \in Requests :
        Answered(r) =>
            /\ prices[r].type = "return"
            /\ reply[r].status \in {200, 500}
            /\ (reply[r].status = 500 <=> IsErrorResult(prices[r].value))
            /\ IsErrorResult(prices[r].value) => reply[r].body = prices[r].value
            /\ ~IsErrorResult(prices[r].value) =>
                 /\ reply[r].body.t = "object"
                 /\ \A k \in DOMAIN reply[r].body.f : reply[r].body.f[k] = prices[r].value.f[k]
C4_ErrorAnswered500 ==
    /\ Answered(1)
    /\ IsErrorResult(prices[1].value)
    /\ reply[1].status = 500

\* C5: no exception escapes fetchCryptoPrices: whatever the upstream outcome,
\* the call returns a PriceMap or an ErrorResult with the fixed message and a
\* details string, and the handler is never rejected.
C5_NoExceptionEscapes ==
    \A r \in Requests :
        /\ pc[r] # "rejected"
        /\ pc[r] \in {"awaitPrices", "done"} =>
             /\ prices[r].type = "return"
             /\ prices[r].value.t = "object"
             /\ IsErrorResult(prices[r].value) => IsWellFormedError(prices[r].value)
C5_NullBodyCaught ==
    /\ Answered(1)
    /\ OkJson(1)
    /\ DocOf(1) = Null
    /\ IsWellFormedError(prices[1].value)

\* C6: a non-success upstream status is answered 500 with the fixed error
\* message and details that hold the status code and the body text; the body
\* is not turned into a PriceMap.
C6_NonSuccessStatus ==
    \A r \in Requests :
        (Answered(r) /\ GotResponse(r) /\ upstream[r].status \notin 200..299) =>
            /\ reply[r].status = 500
            /\ IsWellFormedError(reply[r].body)
            /\ \E i \in DOMAIN reply[r].body.f["details"].s :
                 reply[r].body.f["details"].s[i] = ToString(upstream[r].status)
            /\ \E i \in DOMAIN reply[r].body.f["details"].s :
                 reply[r].body.f["details"].s[i] = upstream[r].body.raw
C6_PayloadWith503 ==
    /\ Answered(1)
    /\ GotResponse(1)
    /\ upstream[1].status = 503
    /\ upstream[1].body.json # NotJSON
    /\ reply[1].status = 500

\* C7: a success status with a body that is not JSON is answered 500 with an
\* ErrorResult whose details are the parse failure; no PriceMap is returned.
C7_MalformedJson ==
    \A r \in Requests :
        (/\ Answered(r)
         /\ GotResponse(r)
         /\ upstream[r].status \in 200..299
         /\ upstream[r].body.json = NotJSON)
        => (/\ reply[r].status = 500
            /\ IsWellFormedError(reply[r].body)
            /\ reply[r].body.f["details"] = Str(<<"invalid json response body", "Unexpected token">>))
C7_MalformedAnswered ==
    /\ Answered(1)
    /\ GotResponse(1)
    /\ upstream[1].status = 200
    /\ upstream[1].body.json = NotJSON
    /\ reply[1].status = 500

\* C8: in the CoinMarketCap variant a parsed object body fails the embedded
\* status check exactly when it carries a status with a non-zero error code.
C8_FailsIffNonZeroCode ==
    \A r \in Requests :
        (variant = "coinmarketcap" /\ Answered(r) /\ OkJson(r) /\ DocOf(r).t = "object") =>
            ((/\ reply[r].status = 500
              /\ reply[r].body.f["details"].s[1] = "CoinMarketCap API internal error:")
             <=> HasNonZeroErrorCode(DocOf(r)))

\* C9: every GET / is answered 200 with the fixed welcome text, whatever the
\* /prices requests are doing, and answering it issues no upstream request
\* and touches no /prices request.
C9_RootAlwaysWelcome ==
    [][rootServed' # rootServed =>
         /\ rootReply'.status = 200
         /\ rootReply'.text =
              IF variant = "coingecko"
              THEN "Welcome to the Crypto Price API! Access /prices to get the latest data."
              ELSE "Welcome to the Crypto Price API! Access /prices to get the latest data from CoinMarketCap."
         /\ upstreamGets' = upstreamGets
         /\ pc' = pc]_vars
C9_RootAmongFailures ==
    /\ rootServed > 0
    /\ rootReply.status = 200
    /\ \E r \in Requests : Answered(r) /\ reply[r].status = 500
    /\ \E r \in Requests : pc[r] = "awaitFetch"

\* the upstream call of a request failed
Failed(v, o) ==
    \/ o.kind = "netfail"
    \/ o.status \notin 200..299
    \/ o.body.json = NotJSON
    \/ o.body.json = Null
    \/ v = "coinmarketcap" /\ HasNonZeroErrorCode(o.body.json)

\* the PriceMap of a payload: its number for an identifier, or "N/A"
ExpectedMap(v, doc) ==
    Obj([k \in {ToLowerCase(id) : id \in {Configured(v)[i] : i \in Positions}} |->
          LET id == CHOOSE x \in {Configured(v)[i] : i \in Positions} : ToLowerCase(x) = k
          IN IF Carried(v, doc, id).t = "number" THEN Carried(v, doc, id) ELSE Str(<<"N/A">>)])

\* C10: concurrent /prices requests are independent: each issues one upstream
\* GET of its own and its answer follows from that GET's outcome alone, 500
\* with an ErrorResult when it failed and 200 with the PriceMap of its own
\* payload when it succeeded, whatever the other requests met.
C10_Independent ==
    \A r \in Requests :
        Answered(r) =>
            /\ upstreamGets[r] = 1
            /\ Failed(variant, upstream[r]) =>
                 (reply[r].status = 500 /\ IsWellFormedError(reply[r].body))
            /\ ~Failed(variant, upstream[r]) =>
                 (reply[r].status = 200 /\ reply[r].body = ExpectedMap(variant, DocOf(r)))
C10_OneFailsOneSucceeds ==
    \E r, q \in Requests :
        /\ r # q
        /\ Answered(r) /\ Answered(q)
        /\ Failed(variant, upstream[r]) /\ reply[r].status = 500
        /\ ~Failed(variant, upstream[q]) /\ reply[q].status = 200
        /\ DocOf(q).t = "object"

====
